---- MODULE Spec2Model ----
(***************************************************************************)
(* A model of CUDD's ADD apply engine (cudd/cuddAddApply.c): the dyadic    *)
(* and monadic recursions, the operators' terminal-case functions and the  *)
(* retry/timeout wrappers, run against a model of the manager (unique      *)
(* table, constant table, computed cache, reference counts, reordering     *)
(* flag, error code, time limit).                                          *)
(*                                                                         *)
(* The recursion is modelled as an explicit stack of frames.  One action   *)
(* is the code of one frame between two recursive calls:                   *)
(*   Enter   lines 767-799 (837-862): terminal case, cache lookup, timeout *)
(*           check, cofactors, call of the then-branch;                    *)
(*   AfterT  lines 800-803 (863-866): test of T, cuddRef(T), call of E;    *)
(*   AfterE  lines 804-822 (867-885): test of E, cuddRef(E), unique table, *)
(*           releases, cache insert, return.                               *)
(* The manager functions the file calls are not part of the file; they are *)
(* modelled after their interface (every request of the unique table may   *)
(* fail, collect garbage or reorder).                                      *)
(***************************************************************************)
EXTENDS Integers, Sequences, FiniteSets, TLC

(***************************************************************************)
(* Bounds of the model.                                                    *)
(***************************************************************************)
\* node slots of the manager's memory (allocation fails when all are used)
MaxNodes == 9
\* top-level calls made by the caller
MaxCalls == 2
\* failures injected: store requests that find no memory, clock reads that
\* find the time limit passed
MaxFail == 1
\* garbage collections started by an allocation
MaxGC == 1
\* computed-cache entries evicted by the environment
MaxEvict == 1

(***************************************************************************)
(* Discriminants.  CUDD_VALUE_TYPE is double; a value is modelled as       *)
(* <<n, d, k>>: the rational n/d in lowest terms with d >= 0 when k = 0,   *)
(* with IEEE's specials +inf = 1/0, -inf = -1/0, NaN = 0/0; k = 1 marks    *)
(* log(n/d) for an n/d whose logarithm is not one of the specials.         *)
(***************************************************************************)
Abs(x) == IF x < 0 THEN -x ELSE x

Sign(x) == IF x < 0 THEN -1 ELSE IF x > 0 THEN 1 ELSE 0

RECURSIVE Gcd(_, _)
Gcd(a, b) == IF b = 0 THEN a ELSE Gcd(b, a % b)

Norm(n, d) ==
    IF d = 0 THEN <<Sign(n), 0, 0>>
    ELSE LET s == IF d < 0 THEN -1 ELSE 1
             g == Gcd(Abs(n), Abs(d))
         IN  <<(s * n) \div g, (s * d) \div g, 0>>

Q(n) == <<n, 1, 0>>
PInfV == <<1, 0, 0>>
MInfV == <<-1, 0, 0>>
NaNV == <<0, 0, 0>>
IsNaN(v) == v[1] = 0 /\ v[2] = 0
IsInf(v) == v[1] # 0 /\ v[2] = 0
Rational(v) == v[3] = 0

\* a + b on doubles
ValPlus(a, b) ==
    IF IsNaN(a) \/ IsNaN(b) THEN NaNV
    ELSE IF IsInf(a) /\ IsInf(b) THEN (IF a = b THEN a ELSE NaNV)
    ELSE IF IsInf(a) THEN a
    ELSE IF IsInf(b) THEN b
    ELSE Norm(a[1] * b[2] + b[1] * a[2], a[2] * b[2])

ValNeg(a) == <<-a[1], a[2], a[3]>>

\* a - b on doubles
ValMinus(a, b) == ValPlus(a, ValNeg(b))

\* a * b on doubles (0 * inf = NaN)
ValTimes(a, b) == Norm(a[1] * b[1], a[2] * b[2])

\* a / b on doubles (x / 0 = +-inf, 0 / 0 = inf / inf = NaN)
ValDivide(a, b) == Norm(a[1] * b[2], a[2] * b[1])

\* a <= b on doubles (false when either is NaN)
ValLe(a, b) ==
    IF IsNaN(a) \/ IsNaN(b) THEN FALSE
    ELSE IF IsInf(a) /\ IsInf(b) THEN a[1] <= b[1]
    ELSE a[1] * b[2] <= b[1] * a[2]

ValLt(a, b) == ValLe(a, b) /\ a # b
ValGe(a, b) == ValLe(b, a)
ValGt(a, b) == ValLt(b, a)

\* log(a) on doubles: log 1 = 0, log 0 = -inf, log of a negative = NaN
ValLog(a) ==
    IF IsNaN(a) \/ a[3] # 0 THEN NaNV
    ELSE IF a = Q(1) THEN Q(0)
    ELSE IF a = Q(0) THEN MInfV
    ELSE IF a = PInfV THEN PInfV
    ELSE IF a[1] < 0 THEN NaNV
    ELSE <<a[1], a[2], 1>>

(***************************************************************************)
(* The manager.                                                            *)
(***************************************************************************)
\* number of variables of the manager
NumVars == 2
\* reorderings the manager may still start (DdManager.maxReorderings)
MaxReorder == 1

NULL == 0
Handles == 1..MaxNodes
Vars == 0..(NumVars - 1)
CUDD_CONST_INDEX == 2147483647
\* index of a node slot on the free list
FreeIndex == -1

\* the constants every manager creates, by address
OneHandle == 1
ZeroHandle == 2
PlusInfHandle == 3
MinusInfHandle == 4

FreeNode == [index |-> FreeIndex, T |-> NULL, E |-> NULL, val |-> NaNV]
ConstNode(v) == [index |-> CUDD_CONST_INDEX, T |-> NULL, E |-> NULL, val |-> v]
InterNode(i, t, e) == [index |-> i, T |-> t, E |-> e, val |-> NaNV]

VARIABLES
    dd,      \* the manager: node, ref, cache, perm, reordered, errorCode, ...
    stack,   \* the frames of the running recursion, the innermost last
    ret,     \* the value returned by the frame that returned last
    wrap,    \* the top-level wrapper: its operands, its position, its result
    env,     \* the caller and the clock: holds, calls made, time limit seen passed
    hist     \* what happened during the current and the previous call

vars == <<dd, stack, ret, wrap, env, hist>>

DD_ONE(m) == m.one
DD_ZERO(m) == m.zero
DD_PLUS_INFINITY(m) == m.plusinfinity
DD_MINUS_INFINITY(m) == m.minusinfinity

cuddIsConstant(m, h) == m.node[h].index = CUDD_CONST_INDEX
cuddV(m, h) == m.node[h].val
cuddT(m, h) == m.node[h].T
cuddE(m, h) == m.node[h].E
\* the level of an index in the current order
cuddI(m, x) == IF x = CUDD_CONST_INDEX THEN x ELSE m.perm[x]

IsFree(m, h) == m.node[h].index = FreeIndex
IsInternal(m, h) == m.node[h].index \in Vars
Used(m) == {h \in Handles : ~IsFree(m, h)}
FreeHandles(m) == {h \in Handles : IsFree(m, h)}
MinOf(S) == CHOOSE x \in S : \A y \in S : x <= y

cuddRef(m, h) == [m EXCEPT !.ref[h] = @ + 1]
cuddDeref(m, h) == [m EXCEPT !.ref[h] = @ - 1]

\* Cudd_RecursiveDeref: decrement; a node that reaches 0 dies and releases
\* its children
RECURSIVE DerefRec(_, _, _)
DerefRec(ref, node, h) ==
    LET r1 == [ref EXCEPT ![h] = @ - 1]
    IN  IF r1[h] = 0 /\ node[h].index \in Vars
        THEN DerefRec(DerefRec(r1, node, node[h].T), node, node[h].E)
        ELSE r1

Cudd_RecursiveDeref(m, h) == [m EXCEPT !.ref = DerefRec(m.ref, m.node, h)]

\* cuddReclaim: a dead node found again takes its children back; the node
\* itself is left with count 0, like a node just created
RECURSIVE ReclaimRec(_, _, _)
ReclaimRec(ref, node, h) ==
    IF ref[h] = 0
    THEN LET r1 == [ref EXCEPT ![h] = 1]
         IN  IF node[h].index \in Vars
             THEN ReclaimRec(ReclaimRec(r1, node, node[h].T), node, node[h].E)
             ELSE r1
    ELSE [ref EXCEPT ![h] = @ + 1]

cuddReclaim(m, h) ==
    [m EXCEPT !.ref = [ReclaimRec(m.ref, m.node, h) EXCEPT ![h] = @ - 1]]

ReclaimIfDead(m, h) == IF m.ref[h] = 0 THEN cuddReclaim(m, h) ELSE m

\* cuddGarbageCollect: the nodes with count 0 go back to the free list and
\* the cache entries that mention one are cleared
cuddGarbageCollect(m) ==
    LET deadSet == {h \in Used(m) : m.ref[h] = 0}
    IN  [m EXCEPT
           !.node = [h \in Handles |-> IF h \in deadSet THEN FreeNode ELSE @[h]],
           !.cache = {c \in @ : c.f \notin deadSet /\ c.g \notin deadSet
                                 /\ c.data \notin deadSet},
           !.garbageCollections = @ + 1]

(***************************************************************************)
(* Requests to the node store.  Each is the set of its possible outcomes   *)
(* [m, res, inj]: the manager after the request, the node returned (NULL   *)
(* on failure) and whether an injected failure was used.                   *)
(***************************************************************************)
Outcome(m, res, inj) == [m |-> m, res |-> res, inj |-> inj]

\* the first slot of the free list, or failure when memory is exhausted
AllocPlain(m) ==
    IF FreeHandles(m) = {}
    THEN Outcome([m EXCEPT !.errorCode = "CUDD_MEMORY_OUT"], NULL, 0)
    ELSE Outcome(m, MinOf(FreeHandles(m)), 0)

\* cuddAllocNode: the time limit and the memory are checked, garbage may
\* be collected, and the first free slot is handed out.  deadline: the
\* clock is read and the time limit has passed; mayFail: no memory
cuddAllocNode(m, deadline, mayFail) ==
    LET gcs == IF m.garbageCollections < MaxGC /\ \E h \in Used(m) : m.ref[h] = 0
               THEN {m, cuddGarbageCollect(m)} ELSE {m}
    IN  (IF deadline
         THEN {Outcome([m EXCEPT !.errorCode = "CUDD_TIMEOUT_EXPIRED"], NULL, 1)}
         ELSE {})
        \cup (IF mayFail
              THEN {Outcome([m EXCEPT !.errorCode = "CUDD_MEMORY_OUT"], NULL, 1)}
              ELSE {})
        \cup {AllocPlain(m1) : m1 \in gcs}

\* cuddUniqueConst: the constant with this value, found or created
cuddUniqueConst(m, v, deadline, mayFail) ==
    LET found == {h \in Used(m) : cuddIsConstant(m, h) /\ cuddV(m, h) = v}
    IN  IF found # {}
        THEN {Outcome(ReclaimIfDead(m, MinOf(found)), MinOf(found), 0)}
        ELSE {IF o.res = NULL THEN o
              ELSE Outcome([o.m EXCEPT !.node[o.res] = ConstNode(v),
                                       !.ref[o.res] = 0], o.res, 0)
              : o \in cuddAllocNode(m, deadline, mayFail)}

\* Cudd_ReduceHeap as seen by the apply engine: the dead nodes are
\* collected, the cache is flushed and the reordered flag is set
Cudd_ReduceHeap(m) ==
    [cuddGarbageCollect([m EXCEPT !.cache = {}])
        EXCEPT !.reordered = 1, !.maxReorderings = @ - 1,
               !.garbageCollections = m.garbageCollections]

\* cuddUniqueInter: the node (index, T, E), found or created; a dead node
\* found is reclaimed; creating may reorder instead, and then fails
cuddUniqueInter(m, index, T, E, deadline, mayFail) ==
    LET found == {h \in Used(m) : m.node[h] = InterNode(index, T, E)}
    IN  IF found # {}
        THEN {Outcome(ReclaimIfDead(m, MinOf(found)), MinOf(found), 0)}
        ELSE (IF m.maxReorderings > 0
              THEN {Outcome(Cudd_ReduceHeap(m), NULL, 0)} ELSE {})
             \cup
             {IF o.res = NULL THEN o
              ELSE Outcome([o.m EXCEPT !.node[o.res] = InterNode(index, T, E),
                                       !.ref[o.res] = 0,
                                       !.ref[T] = @ + 1,
                                       !.ref[E] = @ + 1], o.res, 0)
              : o \in cuddAllocNode(m, deadline, mayFail)}

\* the computed cache: at most one entry per key
cuddCacheLookup2(m, op, f, g) ==
    LET hit == {c \in m.cache : c.op = op /\ c.f = f /\ c.g = g}
    IN  IF hit = {} THEN Outcome(m, NULL, 0)
        ELSE LET c == CHOOSE x \in hit : TRUE
             IN  Outcome(ReclaimIfDead(m, c.data), c.data, 0)

cuddCacheInsert2(m, op, f, g, data) ==
    [m EXCEPT !.cache = {c \in @ : ~(c.op = op /\ c.f = f /\ c.g = g)}
                        \cup {[op |-> op, f |-> f, g |-> g, data |-> data]}]

cuddCacheLookup1(m, op, f) == cuddCacheLookup2(m, op, f, f)
cuddCacheInsert1(m, op, f, data) == cuddCacheInsert2(m, op, f, f, data)

(***************************************************************************)
(* cuddAddNegateRecur, which Cudd_addMinus calls for 0 - g: the negation   *)
(* of g built bottom-up.  NegRec is a run in which no request fails for a  *)
(* reason other than exhausted memory.                                     *)
(***************************************************************************)
FindOrMakeConst(m, v) ==
    LET found == {h \in Used(m) : cuddIsConstant(m, h) /\ cuddV(m, h) = v}
        o == AllocPlain(m)
    IN  IF found # {} THEN Outcome(ReclaimIfDead(m, MinOf(found)), MinOf(found), 0)
        ELSE IF o.res = NULL THEN o
        ELSE Outcome([o.m EXCEPT !.node[o.res] = ConstNode(v), !.ref[o.res] = 0],
                     o.res, 0)

FindOrMakeInter(m, index, T, E) ==
    LET found == {h \in Used(m) : m.node[h] = InterNode(index, T, E)}
        o == AllocPlain(m)
    IN  IF found # {} THEN Outcome(ReclaimIfDead(m, MinOf(found)), MinOf(found), 0)
        ELSE IF o.res = NULL THEN o
        ELSE Outcome([o.m EXCEPT !.node[o.res] = InterNode(index, T, E),
                                 !.ref[o.res] = 0,
                                 !.ref[T] = @ + 1, !.ref[E] = @ + 1], o.res, 0)

\* the one element of a set of one
Only(S) == CHOOSE x \in S : TRUE

RECURSIVE NegRec(_, _)
NegRec(m, f) ==
    IF cuddIsConstant(m, f) THEN FindOrMakeConst(m, ValNeg(cuddV(m, f)))
    ELSE Only({
      IF t.res = NULL THEN t
      ELSE Only({
        IF e.res = NULL
        THEN Outcome(Cudd_RecursiveDeref(e.m, t.res), NULL, 0)
        ELSE Only({
          IF r.res = NULL
          THEN Outcome(Cudd_RecursiveDeref(
                         Cudd_RecursiveDeref(r.m, t.res), e.res), NULL, 0)
          ELSE Outcome(cuddDeref(cuddDeref(r.m, t.res), e.res), r.res, 0)
          : r \in {IF t.res = e.res
                   THEN Outcome(cuddRef(e.m, e.res), t.res, 0)
                   ELSE FindOrMakeInter(cuddRef(e.m, e.res), m.node[f].index,
                                        t.res, e.res)}})
        : e \in {NegRec(cuddRef(t.m, t.res), cuddE(m, f))}})
      : t \in {NegRec(m, cuddT(m, f))}})

cuddAddNegateRecur(m, f, deadline, mayFail) ==
    {NegRec(m, f)}
    \cup (IF deadline
          THEN {Outcome([m EXCEPT !.errorCode = "CUDD_TIMEOUT_EXPIRED"], NULL, 1)}
          ELSE {})
    \cup (IF mayFail
          THEN {Outcome([m EXCEPT !.errorCode = "CUDD_MEMORY_OUT"], NULL, 1)}
          ELSE {})
    \cup (IF m.maxReorderings > 0 /\ ~cuddIsConstant(m, f)
          THEN {Outcome(Cudd_ReduceHeap(m), NULL, 0)} ELSE {})

(***************************************************************************)
(* The operators.  A terminal-case function returns one of                 *)
(*   Node(r, f, g)   the node r;                                           *)
(*   Const(v, f, g)  what cuddUniqueConst(dd, v) returns;                  *)
(*   Negate(f, g)    what cuddAddNegateRecur(dd, g) returns;               *)
(*   NoCase(f, g)    NULL;                                                 *)
(* f and g are *f and *g as the function leaves them.                      *)
(***************************************************************************)
Node(r, f, g) == [k |-> "node", res |-> r, val |-> NaNV, f |-> f, g |-> g]
Const(v, f, g) == [k |-> "const", res |-> NULL, val |-> v, f |-> f, g |-> g]
Negate(f, g) == [k |-> "negate", res |-> NULL, val |-> NaNV, f |-> f, g |-> g]
NoCase(f, g) == [k |-> "none", res |-> NULL, val |-> NaNV, f |-> f, g |-> g]

\* a variant of the swap that the properties below must tell from the code:
\* the operands left as they came
SwapNoCaseNever(F, G) == NoCase(F, G)

\* if (F > G) { *f = G; *g = F; } return(NULL);
SwapNoCase(F, G) == IF F > G THEN NoCase(G, F) ELSE NoCase(F, G)

Cudd_addPlus(m, F, G) ==
    IF F = DD_ZERO(m) THEN Node(G, F, G)
    ELSE IF G = DD_ZERO(m) THEN Node(F, F, G)
    ELSE IF cuddIsConstant(m, F) /\ cuddIsConstant(m, G)
         THEN Const(ValPlus(cuddV(m, F), cuddV(m, G)), F, G)
    ELSE SwapNoCase(F, G)

\* a variant of Cudd_addTimes that the properties below must tell from the
\* code: the test F == DD_ONE(dd) left out
Cudd_addTimesNoOneF(m, F, G) ==
    IF F = DD_ZERO(m) \/ G = DD_ZERO(m) THEN Node(DD_ZERO(m), F, G)
    ELSE IF G = DD_ONE(m) THEN Node(F, F, G)
    ELSE IF cuddIsConstant(m, F) /\ cuddIsConstant(m, G)
         THEN Const(ValTimes(cuddV(m, F), cuddV(m, G)), F, G)
    ELSE SwapNoCase(F, G)

Cudd_addTimes(m, F, G) ==
    IF F = DD_ZERO(m) \/ G = DD_ZERO(m) THEN Node(DD_ZERO(m), F, G)
    ELSE IF F = DD_ONE(m) THEN Node(G, F, G)
    ELSE IF G = DD_ONE(m) THEN Node(F, F, G)
    ELSE IF cuddIsConstant(m, F) /\ cuddIsConstant(m, G)
         THEN Const(ValTimes(cuddV(m, F), cuddV(m, G)), F, G)
    ELSE SwapNoCase(F, G)

Cudd_addThreshold(m, F, G) ==
    IF F = G \/ F = DD_PLUS_INFINITY(m) THEN Node(F, F, G)
    ELSE IF cuddIsConstant(m, F) /\ cuddIsConstant(m, G)
         THEN (IF ValGe(cuddV(m, F), cuddV(m, G)) THEN Node(F, F, G)
               ELSE Node(DD_ZERO(m), F, G))
    ELSE NoCase(F, G)

Cudd_addSetNZ(m, F, G) ==
    IF F = G THEN Node(F, F, G)
    ELSE IF F = DD_ZERO(m) THEN Node(G, F, G)
    ELSE IF G = DD_ZERO(m) THEN Node(F, F, G)
    ELSE IF cuddIsConstant(m, G) THEN Node(G, F, G)
    ELSE NoCase(F, G)

Cudd_addDivide(m, F, G) ==
    IF F = DD_ZERO(m) THEN Node(DD_ZERO(m), F, G)
    ELSE IF G = DD_ONE(m) THEN Node(F, F, G)
    ELSE IF cuddIsConstant(m, F) /\ cuddIsConstant(m, G)
         THEN Const(ValDivide(cuddV(m, F), cuddV(m, G)), F, G)
    ELSE NoCase(F, G)

\* a variant of Cudd_addMinus that ends with the swap of Cudd_addPlus
Cudd_addMinusSwaps(m, F, G) ==
    IF F = G THEN Node(DD_ZERO(m), F, G)
    ELSE IF F = DD_ZERO(m) THEN Negate(F, G)
    ELSE IF G = DD_ZERO(m) THEN Node(F, F, G)
    ELSE IF cuddIsConstant(m, F) /\ cuddIsConstant(m, G)
         THEN Const(ValMinus(cuddV(m, F), cuddV(m, G)), F, G)
    ELSE SwapNoCase(F, G)

Cudd_addMinus(m, F, G) ==
    IF F = G THEN Node(DD_ZERO(m), F, G)
    ELSE IF F = DD_ZERO(m) THEN Negate(F, G)
    ELSE IF G = DD_ZERO(m) THEN Node(F, F, G)
    ELSE IF cuddIsConstant(m, F) /\ cuddIsConstant(m, G)
         THEN Const(ValMinus(cuddV(m, F), cuddV(m, G)), F, G)
    ELSE NoCase(F, G)

Cudd_addMinimum(m, F, G) ==
    IF F = DD_PLUS_INFINITY(m) THEN Node(G, F, G)
    ELSE IF G = DD_PLUS_INFINITY(m) THEN Node(F, F, G)
    ELSE IF F = G THEN Node(F, F, G)
    ELSE IF cuddIsConstant(m, F) /\ cuddIsConstant(m, G)
         THEN (IF ValLe(cuddV(m, F), cuddV(m, G)) THEN Node(F, F, G)
               ELSE Node(G, F, G))
    ELSE SwapNoCase(F, G)

Cudd_addMaximum(m, F, G) ==
    IF F = G THEN Node(F, F, G)
    ELSE IF F = DD_MINUS_INFINITY(m) THEN Node(G, F, G)
    ELSE IF G = DD_MINUS_INFINITY(m) THEN Node(F, F, G)
    ELSE IF cuddIsConstant(m, F) /\ cuddIsConstant(m, G)
         THEN (IF ValGe(cuddV(m, F), cuddV(m, G)) THEN Node(F, F, G)
               ELSE Node(G, F, G))
    ELSE SwapNoCase(F, G)

Cudd_addOneZeroMaximum(m, F, G) ==
    IF F = G THEN Node(DD_ZERO(m), F, G)
    ELSE IF G = DD_PLUS_INFINITY(m) THEN Node(DD_ZERO(m), F, G)
    ELSE IF cuddIsConstant(m, F) /\ cuddIsConstant(m, G)
         THEN (IF ValGt(cuddV(m, F), cuddV(m, G)) THEN Node(DD_ONE(m), F, G)
               ELSE Node(DD_ZERO(m), F, G))
    ELSE NoCase(F, G)

Cudd_addDiff(m, F, G) ==
    IF F = G THEN Node(DD_PLUS_INFINITY(m), F, G)
    ELSE IF F = DD_PLUS_INFINITY(m) THEN Node(G, F, G)
    ELSE IF G = DD_PLUS_INFINITY(m) THEN Node(F, F, G)
    ELSE IF cuddIsConstant(m, F) /\ cuddIsConstant(m, G)
         THEN (IF cuddV(m, F) # cuddV(m, G)
               THEN (IF ValLt(cuddV(m, F), cuddV(m, G)) THEN Node(F, F, G)
                     ELSE Node(G, F, G))
               ELSE Node(DD_PLUS_INFINITY(m), F, G))
    ELSE NoCase(F, G)

Cudd_addAgreement(m, F, G) ==
    IF F = G THEN Node(F, F, G)
    ELSE IF F = m.background THEN Node(F, F, G)
    ELSE IF G = m.background THEN Node(G, F, G)
    ELSE IF cuddIsConstant(m, F) /\ cuddIsConstant(m, G)
         THEN Node(m.background, F, G)
    ELSE NoCase(F, G)

Cudd_addOr(m, F, G) ==
    IF F = DD_ONE(m) \/ G = DD_ONE(m) THEN Node(DD_ONE(m), F, G)
    ELSE IF cuddIsConstant(m, F) THEN Node(G, F, G)
    ELSE IF cuddIsConstant(m, G) THEN Node(F, F, G)
    ELSE IF F = G THEN Node(F, F, G)
    ELSE SwapNoCase(F, G)

Cudd_addNand(m, F, G) ==
    IF F = DD_ZERO(m) \/ G = DD_ZERO(m) THEN Node(DD_ONE(m), F, G)
    ELSE IF cuddIsConstant(m, F) /\ cuddIsConstant(m, G)
         THEN Node(DD_ZERO(m), F, G)
    ELSE SwapNoCase(F, G)

Cudd_addNor(m, F, G) ==
    IF F = DD_ONE(m) \/ G = DD_ONE(m) THEN Node(DD_ZERO(m), F, G)
    ELSE IF cuddIsConstant(m, F) /\ cuddIsConstant(m, G)
         THEN Node(DD_ONE(m), F, G)
    ELSE SwapNoCase(F, G)

\* a variant of Cudd_addXor without the case of line 637
Cudd_addXorNoZeroOne(m, F, G) ==
    IF F = G THEN Node(DD_ZERO(m), F, G)
    ELSE IF F = DD_ONE(m) /\ G = DD_ZERO(m) THEN Node(DD_ONE(m), F, G)
    ELSE IF cuddIsConstant(m, F) /\ cuddIsConstant(m, G)
         THEN Node(DD_ZERO(m), F, G)
    ELSE SwapNoCase(F, G)

Cudd_addXor(m, F, G) ==
    IF F = G THEN Node(DD_ZERO(m), F, G)
    ELSE IF F = DD_ONE(m) /\ G = DD_ZERO(m) THEN Node(DD_ONE(m), F, G)
    ELSE IF G = DD_ONE(m) /\ F = DD_ZERO(m) THEN Node(DD_ONE(m), F, G)
    ELSE IF cuddIsConstant(m, F) /\ cuddIsConstant(m, G)
         THEN Node(DD_ZERO(m), F, G)
    ELSE SwapNoCase(F, G)

Cudd_addXnor(m, F, G) ==
    IF F = G THEN Node(DD_ONE(m), F, G)
    ELSE IF F = DD_ONE(m) /\ G = DD_ONE(m) THEN Node(DD_ONE(m), F, G)
    ELSE IF G = DD_ZERO(m) /\ F = DD_ZERO(m) THEN Node(DD_ONE(m), F, G)
    ELSE IF cuddIsConstant(m, F) /\ cuddIsConstant(m, G)
         THEN Node(DD_ZERO(m), F, G)
    ELSE SwapNoCase(F, G)

\* the monadic operator: g is not used
Cudd_addLog(m, F, G) ==
    IF cuddIsConstant(m, F) THEN Const(ValLog(cuddV(m, F)), F, G)
    ELSE NoCase(F, G)

DyadicOps == {"Plus", "Times", "Threshold", "SetNZ", "Divide", "Minus",
              "Minimum", "Maximum", "OneZeroMaximum", "Diff", "Agreement",
              "Or", "Nand", "Nor", "Xor", "Xnor"}
MonadicOps == {"Log"}

\* (*op)(dd, &f, &g)
TerminalCase(op, m, F, G) ==
    CASE op = "Plus" -> Cudd_addPlus(m, F, G)
      [] op = "Times" -> Cudd_addTimes(m, F, G)
      [] op = "Threshold" -> Cudd_addThreshold(m, F, G)
      [] op = "SetNZ" -> Cudd_addSetNZ(m, F, G)
      [] op = "Divide" -> Cudd_addDivide(m, F, G)
      [] op = "Minus" -> Cudd_addMinus(m, F, G)
      [] op = "Minimum" -> Cudd_addMinimum(m, F, G)
      [] op = "Maximum" -> Cudd_addMaximum(m, F, G)
      [] op = "OneZeroMaximum" -> Cudd_addOneZeroMaximum(m, F, G)
      [] op = "Diff" -> Cudd_addDiff(m, F, G)
      [] op = "Agreement" -> Cudd_addAgreement(m, F, G)
      [] op = "Or" -> Cudd_addOr(m, F, G)
      [] op = "Nand" -> Cudd_addNand(m, F, G)
      [] op = "Nor" -> Cudd_addNor(m, F, G)
      [] op = "Xor" -> Cudd_addXor(m, F, G)
      [] op = "Xnor" -> Cudd_addXnor(m, F, G)
      [] op = "Log" -> Cudd_addLog(m, F, G)

\* the call of the terminal-case function with the store requests it makes:
\* the outcomes [m, res, inj, f, g, req]; req: a store request was made
CallOp(op, m, F, G, deadline, mayFail) ==
    LET tc == TerminalCase(op, m, F, G)
        With(o) == [m |-> o.m, res |-> o.res, inj |-> o.inj,
                    f |-> tc.f, g |-> tc.g,
                    req |-> tc.k \in {"const", "negate"}]
    IN  CASE tc.k = "node" -> {With(Outcome(m, tc.res, 0))}
          [] tc.k = "none" -> {With(Outcome(m, NULL, 0))}
          [] tc.k = "const" ->
               {With(o) : o \in cuddUniqueConst(m, tc.val, deadline, mayFail)}
          [] tc.k = "negate" ->
               {With(o) : o \in cuddAddNegateRecur(m, G, deadline, mayFail)}

(***************************************************************************)
(* The recursion.  A frame holds the locals of one activation; what a      *)
(* frame does between two recursive calls is a set of outcomes             *)
(*   [m, kind, res, fr, cf, cg, inj, evs]                                  *)
(* kind "return": the frame returns res; "call": it calls itself on        *)
(* (cf, cg) and becomes fr; "undef": it reads the children of a constant.  *)
(* evs names what happened, for the history variables.                     *)
(***************************************************************************)
Frame(mon, op, f, g) ==
    [mon |-> mon, op |-> op, f |-> f, g |-> g, pc |-> "start",
     index |-> 0, fvn |-> NULL, gvn |-> NULL, T |-> NULL]

Ret(m, res, fr, inj, evs) ==
    [m |-> m, kind |-> "return", res |-> res, fr |-> fr,
     cf |-> NULL, cg |-> NULL, inj |-> inj, evs |-> evs]
Rec(m, fr, cf, cg, inj, evs) ==
    [m |-> m, kind |-> "call", res |-> NULL, fr |-> fr,
     cf |-> cf, cg |-> cg, inj |-> inj, evs |-> evs]
Undef(m, fr, inj, evs) ==
    [m |-> m, kind |-> "undef", res |-> NULL, fr |-> [fr EXCEPT !.pc = "undef"],
     cf |-> NULL, cg |-> NULL, inj |-> inj, evs |-> evs]

\* what a failed store request was: a reordering, a timeout, no memory
FailureOf(before, after) ==
    IF after.maxReorderings < before.maxReorderings THEN "reorder"
    ELSE IF after.errorCode = "CUDD_TIMEOUT_EXPIRED" THEN "timeout"
    ELSE "memory"

\* checkWhetherToGiveUp(dd): the clock is read once in a while; when it is
\* read after the deadline, the frame gives up
checkWhetherToGiveUp(m, fr, deadline) ==
    IF deadline
    THEN {Ret([m EXCEPT !.errorCode = "CUDD_TIMEOUT_EXPIRED"], NULL, fr, 1,
              {"lookup", "timeout", "giveup"})}
    ELSE {}

\* a variant of lines 781-799 that compares the indices of the top
\* variables, not their positions in the order
ApplyRecursiveStepByIndex(m, fr, inj, evs) ==
    LET f == fr.f
        g == fr.g
    IN  IF IsFree(m, f) \/ IsFree(m, g)
           \/ (cuddIsConstant(m, f) /\ cuddIsConstant(m, g))
        THEN Undef(m, fr, inj, evs)
        ELSE LET ford == m.node[f].index
                 gord == m.node[g].index
                 index == IF ford <= gord THEN m.node[f].index
                          ELSE m.node[g].index
                 fv == IF ford <= gord THEN cuddT(m, f) ELSE f
                 fvn == IF ford <= gord THEN cuddE(m, f) ELSE f
                 gv == IF gord <= ford THEN cuddT(m, g) ELSE g
                 gvn == IF gord <= ford THEN cuddE(m, g) ELSE g
             IN  Rec(m, [fr EXCEPT !.pc = "waitT", !.index = index,
                                   !.fvn = fvn, !.gvn = gvn],
                     fv, gv, inj, evs)

\* lines 781-799: the cofactors and the call of the then-branch.  cuddT and
\* cuddE of a node that is not internal (a constant, a freed slot) read
\* memory that holds no child
ApplyRecursiveStep(m, fr, inj, evs) ==
    LET f == fr.f
        g == fr.g
    IN  IF IsFree(m, f) \/ IsFree(m, g)
           \/ (cuddIsConstant(m, f) /\ cuddIsConstant(m, g))
        THEN Undef(m, fr, inj, evs)
        ELSE LET ford == cuddI(m, m.node[f].index)
                 gord == cuddI(m, m.node[g].index)
                 index == IF ford <= gord THEN m.node[f].index
                          ELSE m.node[g].index
                 fv == IF ford <= gord THEN cuddT(m, f) ELSE f
                 fvn == IF ford <= gord THEN cuddE(m, f) ELSE f
                 gv == IF gord <= ford THEN cuddT(m, g) ELSE g
                 gvn == IF gord <= ford THEN cuddE(m, g) ELSE g
             IN  Rec(m, [fr EXCEPT !.pc = "waitT", !.index = index,
                                   !.fvn = fvn, !.gvn = gvn],
                     fv, gv, inj, evs)

\* a variant of lines 767-799 that makes the timeout check first, before
\* the terminal case and the cache lookup
cuddAddApplyRecurEnterCheckFirst(fr, m, deadline, mayFail) ==
    checkWhetherToGiveUp(m, fr, deadline)
    \cup
    UNION {
      LET fr1 == [fr EXCEPT !.f = o.f, !.g = o.g]
          stf == IF o.res = NULL /\ o.req
                 THEN {"storefail", "ignored", FailureOf(m, o.m)}
                 ELSE {}
          c == cuddCacheLookup2(o.m, fr.op, o.f, o.g)
      IN  IF o.res # NULL THEN {Ret(o.m, o.res, fr1, o.inj, {"terminal"})}
          ELSE IF c.res # NULL
               THEN {Ret(c.m, c.res, fr1, o.inj, stf \cup {"lookup", "hit"})}
          ELSE {ApplyRecursiveStep(c.m, fr1, o.inj, stf \cup {"lookup"})}
      : o \in CallOp(fr.op, m, fr.f, fr.g, deadline, mayFail)}

\* a variant of lines 767-799 that inserts the node of the terminal case
\* in the cache
cuddAddApplyRecurEnterCachesTerminal(fr, m, deadline, mayFail) ==
    UNION {
      LET fr1 == [fr EXCEPT !.f = o.f, !.g = o.g]
          stf == IF o.res = NULL /\ o.req
                 THEN {"storefail", "ignored", FailureOf(m, o.m)}
                 ELSE {}
          c == cuddCacheLookup2(o.m, fr.op, o.f, o.g)
      IN  IF o.res # NULL
          THEN {Ret(cuddCacheInsert2(o.m, fr.op, o.f, o.g, o.res),
                    o.res, fr1, o.inj, {"terminal"})}
          ELSE IF c.res # NULL
               THEN {Ret(c.m, c.res, fr1, o.inj, stf \cup {"lookup", "hit"})}
          ELSE {[x EXCEPT !.evs = @ \cup stf]
                  : x \in checkWhetherToGiveUp(c.m, fr1, deadline /\ o.inj = 0)}
               \cup {ApplyRecursiveStep(c.m, fr1, o.inj, stf \cup {"lookup"})}
      : o \in CallOp(fr.op, m, fr.f, fr.g, deadline, mayFail)}

\* cuddAddApplyRecur, lines 767-799
cuddAddApplyRecurEnter(fr, m, deadline, mayFail) ==
    UNION {
      LET fr1 == [fr EXCEPT !.f = o.f, !.g = o.g]
          stf == IF o.res = NULL /\ o.req
                 THEN {"storefail", "ignored", FailureOf(m, o.m)}
                 ELSE {}
          c == cuddCacheLookup2(o.m, fr.op, o.f, o.g)
      IN  IF o.res # NULL THEN {Ret(o.m, o.res, fr1, o.inj, {"terminal"})}
          ELSE IF c.res # NULL
               THEN {Ret(c.m, c.res, fr1, o.inj, stf \cup {"lookup", "hit"})}
          ELSE {[x EXCEPT !.evs = @ \cup stf]
                  : x \in checkWhetherToGiveUp(c.m, fr1, deadline /\ o.inj = 0)}
               \cup {ApplyRecursiveStep(c.m, fr1, o.inj, stf \cup {"lookup"})}
      : o \in CallOp(fr.op, m, fr.f, fr.g, deadline, mayFail)}

\* a variant of lines 800-803 without the cuddRef(T) of line 801
cuddAddApplyRecurAfterTNoRef(fr, m, T) ==
    IF T = NULL THEN Ret(m, NULL, fr, 0, {})
    ELSE Rec(m, [fr EXCEPT !.pc = "waitE", !.T = T],
             fr.fvn, fr.gvn, 0, {})

\* cuddAddApplyRecur, lines 800-803
cuddAddApplyRecurAfterT(fr, m, T) ==
    IF T = NULL THEN Ret(m, NULL, fr, 0, {})
    ELSE Rec(cuddRef(m, T), [fr EXCEPT !.pc = "waitE", !.T = T],
             fr.fvn, fr.gvn, 0, {})

\* variants of line 810 that the properties below must tell from the code:
\* the children exchanged, and a node requested although T == E
ReduceOrUniqueExchanged(m, index, T, E, deadline, mayFail) ==
    IF T = E THEN {Outcome(m, T, 0)}
    ELSE cuddUniqueInter(m, index, E, T, deadline, mayFail)

\* a variant of line 810 that creates the node without looking it up
ReduceOrUniqueFresh(m, index, T, E, deadline, mayFail) ==
    IF T = E THEN {Outcome(m, T, 0)}
    ELSE {IF o.res = NULL THEN o
          ELSE Outcome([o.m EXCEPT !.node[o.res] = InterNode(index, T, E),
                                   !.ref[o.res] = 0,
                                   !.ref[T] = @ + 1,
                                   !.ref[E] = @ + 1], o.res, 0)
          : o \in cuddAllocNode(m, deadline, mayFail)}

ReduceOrUniqueAlways(m, index, T, E, deadline, mayFail) ==
    cuddUniqueInter(m, index, T, E, deadline, mayFail)

\* line 810: res = (T == E) ? T : cuddUniqueInter(dd,(int)index,T,E)
ReduceOrUnique(m, index, T, E, deadline, mayFail) ==
    IF T = E THEN {Outcome(m, T, 0)}
    ELSE cuddUniqueInter(m, index, T, E, deadline, mayFail)

\* a variant of lines 804-822 that the properties below must tell from the
\* code: the then-result is not released when the else-branch fails
cuddAddApplyRecurAfterEKeepsT(fr, m, E, deadline, mayFail) ==
    IF E = NULL
    THEN {Ret(m, NULL, fr, 0, {})}
    ELSE {IF r.res = NULL
          THEN Ret(Cudd_RecursiveDeref(Cudd_RecursiveDeref(r.m, fr.T), E),
                   NULL, fr, r.inj, {"storefail", FailureOf(m, r.m)})
          ELSE Ret(cuddCacheInsert2(cuddDeref(cuddDeref(r.m, fr.T), E),
                                    fr.op, fr.f, fr.g, r.res),
                   r.res, fr, 0, {"insert"})
          : r \in ReduceOrUnique(cuddRef(m, E), fr.index, fr.T, E,
                                 deadline, mayFail)}

\* a variant of lines 804-822 that inserts the result under the operands
\* exchanged
cuddAddApplyRecurAfterEKeyExchanged(fr, m, E, deadline, mayFail) ==
    IF E = NULL
    THEN {Ret(Cudd_RecursiveDeref(m, fr.T), NULL, fr, 0, {})}
    ELSE {IF r.res = NULL
          THEN Ret(Cudd_RecursiveDeref(Cudd_RecursiveDeref(r.m, fr.T), E),
                   NULL, fr, r.inj, {"storefail", FailureOf(m, r.m)})
          ELSE Ret(cuddCacheInsert2(cuddDeref(cuddDeref(r.m, fr.T), E),
                                    fr.op, fr.g, fr.f, r.res),
                   r.res, fr, 0, {"insert"})
          : r \in ReduceOrUnique(cuddRef(m, E), fr.index, fr.T, E,
                                 deadline, mayFail)}

\* cuddAddApplyRecur, lines 804-822
cuddAddApplyRecurAfterE(fr, m, E, deadline, mayFail) ==
    IF E = NULL
    THEN {Ret(Cudd_RecursiveDeref(m, fr.T), NULL, fr, 0, {})}
    ELSE {IF r.res = NULL
          THEN Ret(Cudd_RecursiveDeref(Cudd_RecursiveDeref(r.m, fr.T), E),
                   NULL, fr, r.inj, {"storefail", FailureOf(m, r.m)})
          ELSE Ret(cuddCacheInsert2(cuddDeref(cuddDeref(r.m, fr.T), E),
                                    fr.op, fr.f, fr.g, r.res),
                   r.res, fr, 0, {"insert"})
          : r \in ReduceOrUnique(cuddRef(m, E), fr.index, fr.T, E,
                                 deadline, mayFail)}

\* a variant of lines 858-862 with the children of f exchanged
MonadicRecursiveStepExchanged(m, fr, inj, evs) ==
    LET f == fr.f
    IN  IF ~IsInternal(m, f) THEN Undef(m, fr, inj, evs)
        ELSE Rec(m, [fr EXCEPT !.pc = "waitT", !.index = m.node[f].index,
                               !.fvn = cuddT(m, f), !.gvn = cuddT(m, f)],
                 cuddE(m, f), cuddE(m, f), inj, evs)

\* lines 857-862: the children of f and the call of the then-branch
MonadicRecursiveStep(m, fr, inj, evs) ==
    LET f == fr.f
    IN  IF ~IsInternal(m, f) THEN Undef(m, fr, inj, evs)
        ELSE Rec(m, [fr EXCEPT !.pc = "waitT", !.index = m.node[f].index,
                               !.fvn = cuddE(m, f), !.gvn = cuddE(m, f)],
                 cuddT(m, f), cuddT(m, f), inj, evs)

\* cuddAddMonadicApplyRecur, lines 846-862
cuddAddMonadicApplyRecurEnter(fr, m, deadline, mayFail) ==
    UNION {
      LET stf == IF o.res = NULL /\ o.req
                 THEN {"storefail", "ignored", FailureOf(m, o.m)}
                 ELSE {}
          c == cuddCacheLookup1(o.m, fr.op, fr.f)
      IN  IF o.res # NULL THEN {Ret(o.m, o.res, fr, o.inj, {"terminal"})}
          ELSE IF c.res # NULL
               THEN {Ret(c.m, c.res, fr, o.inj, stf \cup {"lookup", "hit"})}
          ELSE {[x EXCEPT !.evs = @ \cup stf]
                  : x \in checkWhetherToGiveUp(c.m, fr, deadline /\ o.inj = 0)}
               \cup {MonadicRecursiveStep(c.m, fr, o.inj, stf \cup {"lookup"})}
      : o \in CallOp(fr.op, m, fr.f, fr.f, deadline, mayFail)}

\* cuddAddMonadicApplyRecur, lines 863-866
cuddAddMonadicApplyRecurAfterT(fr, m, T) ==
    IF T = NULL THEN Ret(m, NULL, fr, 0, {})
    ELSE Rec(cuddRef(m, T), [fr EXCEPT !.pc = "waitE", !.T = T],
             fr.fvn, fr.gvn, 0, {})

\* line 873: res = (T == E) ? T : cuddUniqueInter(dd,(int)index,T,E)
MonadicReduceOrUnique(m, index, T, E, deadline, mayFail) ==
    IF T = E THEN {Outcome(m, T, 0)}
    ELSE cuddUniqueInter(m, index, T, E, deadline, mayFail)

\* cuddAddMonadicApplyRecur, lines 867-885
cuddAddMonadicApplyRecurAfterE(fr, m, E, deadline, mayFail) ==
    IF E = NULL
    THEN {Ret(Cudd_RecursiveDeref(m, fr.T), NULL, fr, 0, {})}
    ELSE {IF r.res = NULL
          THEN Ret(Cudd_RecursiveDeref(Cudd_RecursiveDeref(r.m, fr.T), E),
                   NULL, fr, r.inj, {"storefail", FailureOf(m, r.m)})
          ELSE Ret(cuddCacheInsert1(cuddDeref(cuddDeref(r.m, fr.T), E),
                                    fr.op, fr.f, r.res),
                   r.res, fr, 0, {"insert"})
          : r \in MonadicReduceOrUnique(cuddRef(m, E), fr.index, fr.T, E,
                                        deadline, mayFail)}

(***************************************************************************)
(* The state machine.                                                      *)
(***************************************************************************)
NoCall == [op |-> "none", f |-> NULL, g |-> NULL, res |-> NULL,
           mon |-> FALSE, failed |-> FALSE, kept |-> FALSE, topIns |-> 0]

InitNode ==
    [h \in Handles |->
       IF h = OneHandle THEN ConstNode(Q(1))
       ELSE IF h = ZeroHandle THEN ConstNode(Q(0))
       ELSE IF h = PlusInfHandle THEN ConstNode(PInfV)
       ELSE IF h = MinusInfHandle THEN ConstNode(MInfV)
       ELSE IF h = MinusInfHandle + 1 THEN ConstNode(Q(2))
       ELSE IF h - MinusInfHandle - 2 \in Vars
            THEN InterNode(h - MinusInfHandle - 2, OneHandle, ZeroHandle)
       ELSE FreeNode]

InitHeld ==
    [h \in Handles |-> IF InitNode[h].index = FreeIndex THEN 0 ELSE 1]

InitRef ==
    [h \in Handles |->
       InitHeld[h] + Cardinality({p \in Handles : InitNode[p].index \in Vars
                                                  /\ InitNode[p].T = h})
                   + Cardinality({p \in Handles : InitNode[p].index \in Vars
                                                  /\ InitNode[p].E = h})]

\* the manager before the first call, with the variables in the order perm
InitManager(perm) ==
    [node |-> InitNode, ref |-> InitRef, cache |-> {},
     perm |-> perm, reordered |-> 0,
     errorCode |-> "CUDD_NO_ERROR", timeoutHandler |-> TRUE,
     one |-> OneHandle, zero |-> ZeroHandle,
     plusinfinity |-> PlusInfHandle,
     minusinfinity |-> MinusInfHandle, background |-> ZeroHandle,
     garbageCollections |-> 0, maxReorderings |-> MaxReorder]

\* all but the manager
InitRest ==
    /\ stack = <<>>
    /\ ret = NULL
    /\ wrap = [pc |-> "idle", mon |-> FALSE, op |-> "none",
               f |-> NULL, g |-> NULL, res |-> NULL]
    /\ env = [held |-> InitHeld, calls |-> 0, deadline |-> FALSE,
              fails |-> 0, evicts |-> 0]
    /\ hist = [runs |-> 0, failed |-> FALSE, timeouts |-> 0,
               runTimeout |-> FALSE, runReorder |-> FALSE, handler |-> 0,
               ub |-> FALSE, ref0 |-> InitRef, used0 |-> {}, prev |-> NoCall,
               looked |-> FALSE, recursed |-> FALSE, topIns |-> 0,
               topHit |-> FALSE, runFail |-> FALSE, wentOn |-> FALSE,
               ignored |-> FALSE, gaveUp |-> FALSE, late |-> FALSE]

Init ==
    /\ dd = InitManager([v \in Vars |-> v])
    /\ InitRest

\* the manager after a shuffle of the variables: the order reversed
InitOrder ==
    /\ dd = InitManager([v \in Vars |-> NumVars - 1 - v])
    /\ InitRest

Top == stack[Len(stack)]
\* a store request may find no memory now
MayFail == env.fails < MaxFail
\* a clock read may find the time limit passed now
MayTimeout == env.fails < MaxFail

\* every discriminant below h is a rational or one of IEEE's specials
RECURSIVE RationalDD(_, _)
RationalDD(m, h) ==
    IF cuddIsConstant(m, h) THEN Rational(cuddV(m, h))
    ELSE RationalDD(m, cuddT(m, h)) /\ RationalDD(m, cuddE(m, h))

\* the operands a caller may pass: nodes it holds
Operands == {h \in Used(dd) : env.held[h] > 0 /\ RationalDD(dd, h)}

\* the calls of one behaviour: any operator on any two operands, then the
\* same operator on the same two operands, in either order
StartCall(mon, op, f, g) ==
    /\ wrap.pc = "idle"
    /\ env.calls < MaxCalls
    /\ env.calls > 0 =>
         /\ op = hist.prev.op
         /\ <<f, g>> \in {<<hist.prev.f, hist.prev.g>>, <<hist.prev.g, hist.prev.f>>}
    /\ wrap' = [pc |-> "run", mon |-> mon, op |-> op, f |-> f, g |-> g,
                res |-> NULL]
    /\ dd' = [dd EXCEPT !.reordered = 0]
    /\ stack' = <<Frame(mon, op, f, g)>>
    /\ ret' = NULL
    /\ env' = [env EXCEPT !.calls = @ + 1]
    /\ hist' = [hist EXCEPT !.runs = 1, !.failed = FALSE, !.timeouts = 0,
                            !.runTimeout = FALSE, !.runReorder = FALSE,
                            !.handler = 0, !.ref0 = dd.ref,
                            !.used0 = Used(dd),
                            !.looked = FALSE, !.recursed = FALSE,
                            !.topIns = 0, !.topHit = FALSE,
                            !.runFail = FALSE, !.wentOn = FALSE,
                            !.ignored = FALSE, !.gaveUp = FALSE,
                            !.late = FALSE]

\* Cudd_addApply, lines 109-111, first iteration
Cudd_addApply == \E op \in DyadicOps, f \in Operands, g \in Operands :
    StartCall(FALSE, op, f, g)

\* Cudd_addMonadicApply, lines 698-700, first iteration
Cudd_addMonadicApply == \E op \in MonadicOps, f \in Operands :
    StartCall(TRUE, op, f, f)

\* the history of the call in progress: what the step x of a frame at the
\* given depth adds to it
Note(h, x, depth) ==
    LET evs == x.evs
    IN  [h EXCEPT !.failed = @ \/ "storefail" \in evs \/ "giveup" \in evs,
                  !.timeouts = @ + (IF "timeout" \in evs THEN 1 ELSE 0),
                  !.runTimeout = @ \/ "timeout" \in evs,
                  !.runReorder = @ \/ "reorder" \in evs,
                  !.looked = @ \/ "lookup" \in evs,
                  !.recursed = @ \/ x.kind # "return",
                  !.topIns = @ + (IF "insert" \in evs /\ depth = 1
                                  THEN 1 ELSE 0),
                  !.topHit = @ \/ ("hit" \in evs /\ depth = 1),
                  !.runFail = @ \/ "storefail" \in evs,
                  !.wentOn = @ \/ (x.kind # "return"
                                    /\ (h.runFail \/ "storefail" \in evs)),
                  !.ignored = @ \/ "ignored" \in evs,
                  !.gaveUp = @ \/ "giveup" \in evs]

\* one outcome of the innermost frame takes effect
Take(x) ==
    /\ dd' = x.m
    /\ env' = [env EXCEPT !.fails = @ + x.inj,
                           !.deadline = @ \/ "timeout" \in x.evs]
    /\ hist' = [Note(hist, x, Len(stack)) EXCEPT
                  !.late = @ \/ (env.deadline /\ Top.pc = "start"
                                  /\ x.kind = "return" /\ x.res # NULL)]
    /\ wrap' = wrap
    /\ CASE x.kind = "return" ->
              /\ stack' = SubSeq(stack, 1, Len(stack) - 1)
              /\ ret' = x.res
         [] x.kind = "call" ->
              /\ stack' = [stack EXCEPT ![Len(stack)] = x.fr]
                            \o <<Frame(x.fr.mon, x.fr.op, x.cf, x.cg)>>
              /\ ret' = NULL
         [] x.kind = "undef" ->
              /\ stack' = [stack EXCEPT ![Len(stack)] = x.fr]
              /\ ret' = NULL

ApplyEnter ==
    /\ stack # <<>> /\ Top.pc = "start" /\ ~Top.mon
    /\ \E x \in cuddAddApplyRecurEnter(Top, dd, MayTimeout, MayFail) : Take(x)

ApplyAfterT ==
    /\ stack # <<>> /\ Top.pc = "waitT" /\ ~Top.mon
    /\ Take(cuddAddApplyRecurAfterT(Top, dd, ret))

ApplyAfterE ==
    /\ stack # <<>> /\ Top.pc = "waitE" /\ ~Top.mon
    /\ \E x \in cuddAddApplyRecurAfterE(Top, dd, ret, MayTimeout, MayFail) :
         Take(x)

MonadicEnter ==
    /\ stack # <<>> /\ Top.pc = "start" /\ Top.mon
    /\ \E x \in cuddAddMonadicApplyRecurEnter(Top, dd, MayTimeout, MayFail) :
         Take(x)

MonadicAfterT ==
    /\ stack # <<>> /\ Top.pc = "waitT" /\ Top.mon
    /\ Take(cuddAddMonadicApplyRecurAfterT(Top, dd, ret))

MonadicAfterE ==
    /\ stack # <<>> /\ Top.pc = "waitE" /\ Top.mon
    /\ \E x \in cuddAddMonadicApplyRecurAfterE(Top, dd, ret, MayTimeout,
                                               MayFail) : Take(x)

\* the frame that read the children of a constant: the process is killed,
\* or the frame goes on with what it read and returns NULL or a pointer to
\* some node in use
UndefinedRead ==
    /\ stack # <<>> /\ Top.pc = "undef"
    /\ hist' = [hist EXCEPT !.ub = TRUE]
    /\ UNCHANGED <<dd, env>>
    /\ \/ /\ wrap' = [wrap EXCEPT !.pc = "killed"]
          /\ UNCHANGED <<stack, ret>>
       \/ /\ wrap.pc = "run"
          /\ \E r \in {h \in Used(dd) : dd.ref[h] > 0} \cup {NULL} :
               /\ stack' = SubSeq(stack, 1, Len(stack) - 1)
               /\ ret' = r
          /\ wrap' = wrap

\* a variant of the rerun that the properties below must tell from the
\* code: the operands exchanged
RerunOperandsExchanged == <<wrap.g, wrap.f>>

\* the operands of a rerun: the wrapper's own f and g
RerunOperands == <<wrap.f, wrap.g>>

\* a variant of lines 109-112 with a cap on the runs of one call
WrapperRetryCapped ==
    /\ wrap.pc = "run" /\ stack = <<>>
    /\ dd.reordered = 1
    /\ hist.runs < MaxReorder
    /\ dd' = [dd EXCEPT !.reordered = 0]
    /\ stack' = <<Frame(wrap.mon, wrap.op, RerunOperands[1], RerunOperands[2])>>
    /\ ret' = NULL
    /\ hist' = [hist EXCEPT !.runs = @ + 1, !.runTimeout = FALSE,
                            !.runReorder = FALSE, !.runFail = FALSE,
                            !.gaveUp = FALSE]
    /\ UNCHANGED <<wrap, env>>

\* lines 109-112 (698-701): the run ended with the flag set, run again
WrapperRetry ==
    /\ wrap.pc = "run" /\ stack = <<>>
    /\ dd.reordered = 1
    /\ dd' = [dd EXCEPT !.reordered = 0]
    /\ stack' = <<Frame(wrap.mon, wrap.op, RerunOperands[1], RerunOperands[2])>>
    /\ ret' = NULL
    /\ hist' = [hist EXCEPT !.runs = @ + 1, !.runTimeout = FALSE,
                            !.runReorder = FALSE, !.runFail = FALSE,
                            !.gaveUp = FALSE]
    /\ UNCHANGED <<wrap, env>>

\* lines 113-115 (702-704): is the timeout handler called
HandlerCalled(m) == m.errorCode = "CUDD_TIMEOUT_EXPIRED" /\ m.timeoutHandler

\* lines 112-117 (701-706): the run ended with the flag clear, return
WrapperReturn ==
    /\ wrap.pc = "run" /\ stack = <<>>
    /\ dd.reordered # 1
    /\ wrap' = [wrap EXCEPT !.pc = "done", !.res = ret]
    /\ hist' = [hist EXCEPT !.handler = @ + (IF HandlerCalled(dd) THEN 1 ELSE 0)]
    /\ UNCHANGED <<dd, stack, ret, env>>

\* the caller takes the result: Cudd_Ref, and either keeps it or releases it
\* again with Cudd_RecursiveDeref
CallerTakes ==
    /\ wrap.pc = "done"
    /\ \E keep \in BOOLEAN :
         /\ hist' = [hist EXCEPT !.prev =
                       [op |-> wrap.op, f |-> wrap.f, g |-> wrap.g,
                        res |-> wrap.res, mon |-> wrap.mon,
                        failed |-> hist.failed, kept |-> keep,
                        topIns |-> hist.topIns]]
         /\ IF wrap.res = NULL
            THEN keep /\ UNCHANGED <<dd, env>>
            ELSE IF keep
                 THEN /\ dd' = cuddRef(dd, wrap.res)
                      /\ env' = [env EXCEPT !.held[wrap.res] = @ + 1]
                 ELSE /\ dd' = Cudd_RecursiveDeref(cuddRef(dd, wrap.res),
                                                   wrap.res)
                      /\ env' = env
    /\ wrap' = [wrap EXCEPT !.pc = "idle"]
    /\ UNCHANGED <<stack, ret>>

\* the computed cache loses an entry (a collision, a resize)
Evict ==
    /\ env.evicts < MaxEvict
    /\ wrap.pc # "killed"
    /\ \E c \in dd.cache : dd' = [dd EXCEPT !.cache = @ \ {c}]
    /\ env' = [env EXCEPT !.evicts = @ + 1]
    /\ UNCHANGED <<stack, ret, wrap, hist>>

Next ==
    \/ Cudd_addApply
    \/ Cudd_addMonadicApply
    \/ ApplyEnter
    \/ ApplyAfterT
    \/ ApplyAfterE
    \/ MonadicEnter
    \/ MonadicAfterT
    \/ MonadicAfterE
    \/ UndefinedRead
    \/ WrapperRetry
    \/ WrapperReturn
    \/ CallerTakes
    \/ Evict

Spec == Init /\ [][Next]_vars

\* the same program on the manager with the order reversed
SpecOrder == InitOrder /\ [][Next]_vars

(***************************************************************************)
(* The value of a diagram and the value an operator stands for.            *)
(***************************************************************************)
Assignments == [Vars -> BOOLEAN]

\* the discriminant reached from h under the assignment a
RECURSIVE Eval(_, _, _)
Eval(m, h, a) ==
    IF cuddIsConstant(m, h) THEN cuddV(m, h)
    ELSE IF a[m.node[h].index] THEN Eval(m, cuddT(m, h), a)
    ELSE Eval(m, cuddE(m, h), a)

ArithmeticOps == {"Plus", "Times", "Minus", "Minimum", "Maximum", "Threshold",
                  "OneZeroMaximum", "SetNZ", "Diff", "Agreement"}

\* op on two discriminants, in the arithmetic of doubles
OpVal(op, a, b, bg) ==
    CASE op = "Plus" -> ValPlus(a, b)
      [] op = "Times" -> ValTimes(a, b)
      [] op = "Minus" -> ValMinus(a, b)
      [] op = "Minimum" -> IF ValLe(a, b) THEN a ELSE b
      [] op = "Maximum" -> IF ValGe(a, b) THEN a ELSE b
      [] op = "Threshold" -> IF ValGe(a, b) THEN a ELSE Q(0)
      [] op = "OneZeroMaximum" -> IF ValGt(a, b) THEN Q(1) ELSE Q(0)
      [] op = "SetNZ" -> IF b # Q(0) THEN b ELSE a
      [] op = "Diff" -> IF a = b THEN PInfV
                        ELSE IF ValLt(a, b) THEN a ELSE b
      [] op = "Agreement" -> IF a = b THEN a ELSE bg

\* op has a value on a and b: neither is NaN and the result is not the
\* indeterminate form of 0 * inf or inf - inf
Determinate(op, a, b, bg) ==
    ~IsNaN(a) /\ ~IsNaN(b) /\ ~IsNaN(OpVal(op, a, b, bg))

\* the call has returned a node, its last run met no failure, and no frame
\* of this or of an earlier call has read the children of a constant
CompletedWithoutFailure ==
    /\ wrap.pc = "done"
    /\ wrap.res # NULL
    /\ ~hist.runFail /\ ~hist.runTimeout /\ ~hist.ub

CommutativeOps == {"Plus", "Times", "Minimum", "Maximum",
                   "Or", "Nand", "Nor", "Xor", "Xnor"}
BooleanOps == {"Or", "Nand", "Nor", "Xor", "Xnor"}

\* h is a 0-1 ADD
ZeroOne(m, h) == \A a \in Assignments : Eval(m, h, a) \in {Q(0), Q(1)}

\* the operands are in the domain of the operator
InDomain(op, f, g) == op \in BooleanOps => ZeroOne(dd, f) /\ ZeroOne(dd, g)

\* the call that has just returned a node follows a call that returned a
\* node the caller still holds
SecondCallDone ==
    /\ wrap.pc = "done" /\ env.calls >= 2 /\ ~hist.ub
    /\ wrap.res # NULL
    /\ hist.prev.res # NULL /\ hist.prev.kept

\* the two calls have the operands exchanged
ExchangedPair ==
    /\ SecondCallDone /\ ~wrap.mon /\ wrap.op \in CommutativeOps
    /\ wrap.f = hist.prev.g /\ wrap.g = hist.prev.f

\* nothing has emptied the cache between the insertion and the second call:
\* no eviction, and no reordering during the second call
CacheKept == env.evicts = 0 /\ hist.runs = 1

\* C2: for a commutative operator that orders its operands, on operands of
\* its domain, apply(op, f, g) and apply(op, g, f) return the identical
\* node; the two calls create at most one cache entry for the top-level
\* pair while no entry is evicted, and when the first call created one the
\* second call hits it
C2_CommutativeReuse ==
    (ExchangedPair /\ InDomain(wrap.op, wrap.f, wrap.g)) =>
        /\ wrap.res = hist.prev.res
        /\ CacheKept => /\ hist.prev.topIns + hist.topIns <= 1
                        /\ hist.prev.topIns = 1 => hist.topHit

\* the second call, with the operands exchanged, hit the entry of the first
C2_Witness ==
    /\ ExchangedPair /\ InDomain(wrap.op, wrap.f, wrap.g) /\ CacheKept
    /\ wrap.f # wrap.g
    /\ hist.prev.topIns = 1 /\ hist.topHit
    /\ IsInternal(dd, wrap.res)

\* C2 as the spec states it: for all nodes f and g, the identical node and
\* exactly one cache entry for the top-level pair
C2_ExactlyOneEntry ==
    ExchangedPair =>
        /\ wrap.res = hist.prev.res
        /\ hist.prev.topIns + hist.topIns = 1

\* the call repeats the call before it
RepeatedCall ==
    /\ SecondCallDone
    /\ wrap.mon = hist.prev.mon /\ wrap.op = hist.prev.op
    /\ wrap.f = hist.prev.f /\ wrap.g = hist.prev.g

\* no two internal nodes in use have the same (index, then, else)
NoDuplicates ==
    \A h1, h2 \in Used(dd) :
        (IsInternal(dd, h1) /\ IsInternal(dd, h2)
         /\ dd.node[h1] = dd.node[h2]) => h1 = h2

\* C3: with the first result held by the caller, the repeated call returns
\* the identical node, whatever was evicted from the cache between and
\* during the calls; and no two internal nodes with the same (index, then,
\* else) coexist
C3_Canonicity ==
    /\ RepeatedCall => wrap.res = hist.prev.res
    /\ NoDuplicates

\* the repeated call lost the entry of the first, went through the
\* recursion again and returned an internal node
C3_Witness ==
    /\ RepeatedCall /\ env.evicts > 0 /\ ~hist.topHit /\ hist.recursed
    /\ IsInternal(dd, wrap.res)

\* C4: every internal node has a then-child different from its else-child:
\* when the two branch results of a step are the same node, no internal
\* node is requested
C4_Reduced ==
    \A h \in Used(dd) : IsInternal(dd, h) => cuddT(dd, h) # cuddE(dd, h)

\* a step whose two branch results were the same node has returned it
C4_Witness ==
    /\ wrap.pc = "done" /\ wrap.res # NULL /\ ~hist.ub
    /\ hist.recursed /\ hist.topIns > 0
    /\ cuddIsConstant(dd, wrap.res)

\* the nodes the call created, or found dead and took into use again
NewNodes == {h \in Used(dd) : h \notin hist.used0 \/ hist.ref0[h] = 0}

ChildOfNew(h) ==
    \E p \in NewNodes : IsInternal(dd, p) /\ h \in {cuddT(dd, p), cuddE(dd, p)}

\* C5: when a top-level call returns, after failures and reruns too, every
\* node that was in use before the call and is not a child of a node the
\* call created has the reference count it had before the call, as long as
\* no frame has read the children of a constant; and no count is ever
\* below zero
C5_HoldsBalanced ==
    /\ \A h \in Handles : dd.ref[h] >= 0
    /\ (wrap.pc = "done" /\ ~hist.ub) =>
          \A h \in hist.used0 :
              (hist.ref0[h] > 0 /\ ~ChildOfNew(h)) =>
                  h \in Used(dd) /\ dd.ref[h] = hist.ref0[h]

\* the call failed in the else-branch or at the unique table, with a
\* then-result already held, and has returned
C5_Witness ==
    /\ wrap.pc = "done" /\ wrap.res = NULL /\ ~wrap.mon
    /\ hist.runFail /\ hist.topIns = 0 /\ hist.recursed /\ ~hist.ub
    /\ \E h \in hist.used0 : hist.ref0[h] > 0 /\ ~ChildOfNew(h)
                               /\ h \notin {wrap.f, wrap.g}
    /\ NewNodes # {}

\* C6: every run of a wrapper starts with the flag 0 and with the operands
\* the caller passed; the wrapper returns only after a run in which no
\* reordering took place, and the flag is 0 when it returns
C6_RerunFromOriginal ==
    /\ (Len(stack) = 1 /\ stack[1].pc = "start") =>
           /\ dd.reordered = 0
           /\ stack[1].f = wrap.f /\ stack[1].g = wrap.g
    /\ wrap.pc = "done" => dd.reordered = 0 /\ ~hist.runReorder

\* a call whose first run exchanged the operands and met a reordering has
\* returned the node of a second run
C6_Witness ==
    /\ wrap.pc = "done" /\ wrap.res # NULL /\ ~hist.ub
    /\ hist.runs = 2 /\ ~wrap.mon
    /\ wrap.op \in CommutativeOps /\ wrap.f > wrap.g
    /\ IsInternal(dd, wrap.res)

\* C7: a call during which the timeout expired invokes the handler exactly
\* once, in the wrapper and not inside the recursion, and returns NULL
C7_HandlerOnceAndNull ==
    /\ wrap.pc = "run" => hist.handler = 0
    /\ (wrap.pc = "done" /\ hist.timeouts > 0) =>
           hist.handler = 1 /\ wrap.res = NULL

\* C8: a call invokes the handler only if the timeout expired during its
\* last run
C8_HandlerOnlyAfterTimeout ==
    (wrap.pc = "done" /\ hist.handler > 0) => hist.runTimeout

\* C9: after a store request of a run has failed no frame of the run
\* starts another recursive call, and the wrapper returns NULL when its
\* last run met such a failure
C9_FailurePropagates ==
    /\ ~hist.wentOn
    /\ (wrap.pc = "done" /\ hist.runFail) => wrap.res = NULL

\* what an identity or absorber law gives for op on (f, g); NULL: no law
IdentityLaw(m, op, f, g) ==
    CASE op = "Plus" /\ g = DD_ZERO(m) -> f
      [] op = "Plus" /\ f = DD_ZERO(m) -> g
      [] op = "Times" /\ (f = DD_ZERO(m) \/ g = DD_ZERO(m)) -> DD_ZERO(m)
      [] op = "Times" /\ g = DD_ONE(m) -> f
      [] op = "Times" /\ f = DD_ONE(m) -> g
      [] op = "Minimum" /\ g = DD_PLUS_INFINITY(m) -> f
      [] op = "Minimum" /\ f = DD_PLUS_INFINITY(m) -> g
      [] op = "Maximum" /\ g = DD_MINUS_INFINITY(m) -> f
      [] op = "Maximum" /\ f = DD_MINUS_INFINITY(m) -> g
      [] op = "Xor" /\ f = g -> DD_ZERO(m)
      [] op = "Agreement" /\ f = g -> f
      [] OTHER -> NULL

\* C10: a call that an identity or absorber law covers returns the node the
\* law names, terminal or internal, in one run without a recursive call
\* and without a cache access
C10_IdentityLaws ==
    (wrap.pc = "done" /\ ~wrap.mon
     /\ IdentityLaw(dd, wrap.op, wrap.f, wrap.g) # NULL) =>
        /\ wrap.res = IdentityLaw(dd, wrap.op, wrap.f, wrap.g)
        /\ ~hist.recursed /\ ~hist.looked /\ hist.runs = 1

\* the law of Times and one, with one as the first operand and an internal
\* node as the second
C10_Witness ==
    /\ wrap.pc = "done" /\ ~wrap.mon /\ wrap.op = "Times"
    /\ wrap.f = DD_ONE(dd) /\ IsInternal(dd, wrap.g)
    /\ wrap.res = wrap.g

(***************************************************************************)
(* The boolean operators on 0-1 ADDs.                                      *)
(***************************************************************************)
\* op on two discriminants that are 0 or 1
BoolVal(op, a, b) ==
    LET x == a = Q(1)
        y == b = Q(1)
        r == CASE op = "Or" -> x \/ y
               [] op = "Nand" -> ~(x /\ y)
               [] op = "Nor" -> ~(x \/ y)
               [] op = "Xor" -> x # y
               [] op = "Xnor" -> x = y
    IN  IF r THEN Q(1) ELSE Q(0)

\* C11: on 0-1 ADDs f and g, a call with Or, Nand, Nor, Xor or Xnor that
\* completes without failure returns a 0-1 ADD whose value at every
\* assignment is the boolean function of the values of f and g; Xor of two
\* distinct variables has the truth table 0, 1, 1, 0
C11_BooleanValue ==
    (CompletedWithoutFailure /\ ~wrap.mon /\ wrap.op \in BooleanOps
     /\ ZeroOne(dd, wrap.f) /\ ZeroOne(dd, wrap.g)) =>
        /\ ZeroOne(dd, wrap.res)
        /\ \A a \in Assignments :
               Eval(dd, wrap.res, a) =
                   BoolVal(wrap.op, Eval(dd, wrap.f, a), Eval(dd, wrap.g, a))

\* Xor of the diagrams of two distinct variables has returned a diagram
\* with the truth table 0, 1, 1, 0
C11_Witness ==
    /\ CompletedWithoutFailure /\ ~wrap.mon /\ wrap.op = "Xor"
    /\ IsInternal(dd, wrap.f) /\ IsInternal(dd, wrap.g)
    /\ dd.node[wrap.f].index # dd.node[wrap.g].index
    /\ cuddT(dd, wrap.f) = DD_ONE(dd) /\ cuddE(dd, wrap.f) = DD_ZERO(dd)
    /\ cuddT(dd, wrap.g) = DD_ONE(dd) /\ cuddE(dd, wrap.g) = DD_ZERO(dd)
    /\ hist.recursed /\ IsInternal(dd, wrap.res)
    /\ \A a \in Assignments :
           Eval(dd, wrap.res, a) =
               (IF a[dd.node[wrap.f].index] # a[dd.node[wrap.g].index]
                THEN Q(1) ELSE Q(0))

(***************************************************************************)
(* The timeout check of the recursive step.                                *)
(***************************************************************************)
\* what the innermost frame, about to start its step, does when every
\* clock read finds the time limit passed and memory is not exhausted
StepAfterDeadline ==
    IF Top.mon THEN cuddAddMonadicApplyRecurEnter(Top, dd, TRUE, FALSE)
    ELSE cuddAddApplyRecurEnter(Top, dd, TRUE, FALSE)

\* the terminal case of the innermost frame applies, or its operands, as
\* the operator leaves them, hit the cache
ResolvedAtOnce ==
    LET tc == TerminalCase(Top.op, dd, Top.f, Top.g)
    IN  \/ tc.k = "node"
        \/ tc.k = "none" /\ cuddCacheLookup2(dd, Top.op, tc.f, tc.g).res # NULL

\* C12: a step makes the timeout check only when its terminal case does not
\* apply and its operands miss the cache; a step whose check finds the time
\* limit passed sets the error code, returns NULL and inserts nothing in
\* the cache, after it no step of the run is entered and every pending
\* frame and the run return NULL; a step that the terminal case or the
\* cache resolves returns its node without a check, even after the limit
C12_CheckBeforeDescending ==
    /\ (wrap.pc = "run" /\ hist.gaveUp) =>
           /\ ret = NULL
           /\ dd.errorCode = "CUDD_TIMEOUT_EXPIRED"
           /\ \A i \in 1..Len(stack) : stack[i].pc \in {"waitT", "waitE"}
    /\ (wrap.pc = "done" /\ hist.gaveUp) => wrap.res = NULL
    /\ (wrap.pc = "run" /\ stack # <<>> /\ Top.pc = "start") =>
           /\ \A x \in StepAfterDeadline :
                  "giveup" \in x.evs =>
                      /\ x.kind = "return" /\ x.res = NULL
                      /\ x.m.errorCode = "CUDD_TIMEOUT_EXPIRED"
                      /\ x.m.cache \subseteq dd.cache
           /\ ResolvedAtOnce =>
                  \A x \in StepAfterDeadline :
                      /\ x.kind = "return" /\ x.res # NULL
                      /\ "giveup" \notin x.evs
           /\ (~ResolvedAtOnce
               /\ TerminalCase(Top.op, dd, Top.f, Top.g).k = "none") =>
                  \E x \in StepAfterDeadline : "giveup" \in x.evs

\* a step below the first gave up, the pending frames returned NULL and the
\* wrapper has called the handler and returned NULL
C12_Witness ==
    /\ wrap.pc = "done" /\ hist.gaveUp /\ hist.recursed /\ ~hist.ignored
    /\ wrap.res = NULL /\ hist.handler = 1

\* C12 as the spec states it: a step entered after the time limit was seen
\* passed produces no result, also when its terminal case applies or its
\* operands hit the cache
C12_EveryStepChecks ==
    (~hist.ignored /\ ~hist.ub) => ~hist.late

(***************************************************************************)
(* The holds of the pending frames.                                        *)
(***************************************************************************)
\* the frames that have their then-result and wait for the else-branch
HoldingFrames == {i \in 1..Len(stack) : stack[i].pc = "waitE"}

\* C13: every frame that has obtained its then-result T holds it until it
\* returns: T is in use and its reference count is at least the number of
\* frames holding it, throughout the else-branch recursion; and during the
\* unique-table request of a frame neither T nor E is reclaimed, whatever
\* the request collects or allocates
C13_ResultsHeld ==
    /\ \A i \in HoldingFrames :
           /\ stack[i].T \in Used(dd)
           /\ dd.ref[stack[i].T] >=
                  Cardinality({j \in HoldingFrames : stack[j].T = stack[i].T})
    /\ (wrap.pc = "run" /\ stack # <<>> /\ Top.pc = "waitE" /\ ret # NULL) =>
           /\ ret \in Used(dd)
           /\ \A x \in (IF Top.mon
                        THEN cuddAddMonadicApplyRecurAfterE(Top, dd, ret,
                                                            TRUE, TRUE)
                        ELSE cuddAddApplyRecurAfterE(Top, dd, ret,
                                                     TRUE, TRUE)) :
                  /\ x.m.node[Top.T] = dd.node[Top.T]
                  /\ x.m.node[ret] = dd.node[ret]

\* a frame waits for its else-branch with a then-result that the call
\* created and that nothing but the frame holds, after a garbage collection
\* of this call
C13_Witness ==
    /\ ~hist.ub /\ wrap.pc = "run"
    /\ \E i \in HoldingFrames :
           /\ stack[i].T \notin hist.used0
           /\ dd.ref[stack[i].T] = 1
    /\ stack # <<>> /\ Top.pc = "start"
    /\ dd.garbageCollections > 0

(***************************************************************************)
(* The keys of the cache.                                                  *)
(***************************************************************************)
\* the entries the innermost frame, back from its else-branch, may insert
InsertedByTop ==
    UNION {x.m.cache \ dd.cache :
             x \in cuddAddApplyRecurAfterE(Top, dd, ret, FALSE, FALSE)}

\* C14: a step inserts its result under the key (op, f, g) of its lookup,
\* f and g as the operator left them; every cache entry of an operator
\* that orders its operands has its first operand not greater than its
\* second
C14_CanonicalKeys ==
    /\ \A c \in dd.cache : c.op \in CommutativeOps => c.f <= c.g
    /\ \A i \in 1..Len(stack) :
           (~stack[i].mon /\ stack[i].pc \in {"waitT", "waitE"}) =>
               LET tc == TerminalCase(stack[i].op, dd, stack[i].f, stack[i].g)
               IN  tc.k = "none" => tc.f = stack[i].f /\ tc.g = stack[i].g
    /\ (wrap.pc = "run" /\ stack # <<>> /\ ~Top.mon /\ Top.pc = "waitE"
        /\ ret # NULL) =>
           \A c \in InsertedByTop :
               c.op = Top.op /\ c.f = Top.f /\ c.g = Top.g

\* a call whose operands the operator exchanged has left an entry under
\* the exchanged pair
C14_Witness ==
    /\ wrap.pc = "done" /\ ~wrap.mon /\ wrap.op \in CommutativeOps
    /\ wrap.f > wrap.g /\ wrap.res # NULL /\ hist.topIns > 0 /\ ~hist.ub
    /\ \E c \in dd.cache :
           c.op = wrap.op /\ c.f = wrap.g /\ c.g = wrap.f /\ c.data = wrap.res

(***************************************************************************)
(* What the terminal-case functions do to *f and *g.                       *)
(***************************************************************************)
OrderSensitiveOps == {"Threshold", "SetNZ", "Divide", "Minus",
                      "OneZeroMaximum", "Agreement"}

\* the operator called on (F, G) leaves *f and *g as they are
LeavesOperands(op, F, G) ==
    LET tc == TerminalCase(op, dd, F, G)
    IN  tc.f = F /\ tc.g = G

\* C15: Threshold, SetNZ, Divide, Minus, OneZeroMaximum and Agreement leave
\* *f and *g unchanged on every pair of operands that a step of any call
\* meets, in either order; no operator but Plus, Times,
\* Minimum, Maximum, Or, Nand, Nor, Xor and Xnor changes them, and these
\* only exchange them and only when they return NULL; so the first frame
\* of a run of an order-sensitive operator keeps the caller's operands
C15_OperandsKept ==
    /\ (wrap.pc = "run" /\ stack # <<>> /\ Top.pc = "start") =>
           \A op \in DyadicOps, F \in {Top.f, Top.g}, G \in {Top.f, Top.g} :
               LET tc == TerminalCase(op, dd, F, G)
               IN  /\ op \notin CommutativeOps => LeavesOperands(op, F, G)
                   /\ ~LeavesOperands(op, F, G) =>
                          /\ tc.f = G /\ tc.g = F
                          /\ tc.k = "none"
    /\ (wrap.pc = "run" /\ stack # <<>> /\ ~wrap.mon
        /\ wrap.op \notin CommutativeOps) =>
           stack[1].f = wrap.f /\ stack[1].g = wrap.g

\* a run of an order-sensitive operator with the first operand greater than
\* the second has passed the terminal case and started its recursion
C15_Witness ==
    /\ wrap.pc = "run" /\ ~wrap.mon /\ wrap.op \in OrderSensitiveOps
    /\ wrap.f > wrap.g /\ ~hist.ub
    /\ stack # <<>> /\ stack[1].pc = "waitT"
    /\ stack[1].f = wrap.f /\ stack[1].g = wrap.g

(***************************************************************************)
(* The step that the terminal case resolves.                               *)
(***************************************************************************)
\* what the innermost frame, about to start its step, may do
StepOutcomes ==
    UNION {IF Top.mon
           THEN cuddAddMonadicApplyRecurEnter(Top, dd, d, f)
           ELSE cuddAddApplyRecurEnter(Top, dd, d, f)
           : d \in BOOLEAN, f \in BOOLEAN}

\* what the operator of the innermost frame may return, with the manager
\* as its store requests leave it
OperatorOutcomes ==
    UNION {CallOp(Top.op, dd, Top.f, Top.g, d, f)
           : d \in BOOLEAN, f \in BOOLEAN}

\* C16: when the operator returns a node the step returns that node and
\* leaves the manager as the operator left it: no cache lookup, no cache
\* insert, no change of a reference count, no recursive call; when the
\* operator returns one of its operands or a constant of the manager, the
\* manager is not changed at all
C16_TerminalReturnsAtOnce ==
    (wrap.pc = "run" /\ stack # <<>> /\ Top.pc = "start") =>
        LET tc == TerminalCase(Top.op, dd, Top.f, Top.g)
        IN  /\ \A o \in OperatorOutcomes :
                   o.res # NULL =>
                       \E x \in StepOutcomes :
                           /\ x.kind = "return" /\ x.res = o.res
                           /\ x.m = o.m /\ x.evs = {"terminal"}
            /\ \A x \in StepOutcomes :
                   \/ /\ x.evs = {"terminal"} /\ x.kind = "return"
                      /\ \E o \in OperatorOutcomes :
                             o.res # NULL /\ x.res = o.res /\ x.m = o.m
                   \/ tc.k = "none"
                   \/ "storefail" \in x.evs
            /\ tc.k = "node" =>
                   \A x \in StepOutcomes :
                       /\ x.kind = "return" /\ x.res = tc.res
                       /\ x.m = dd /\ x.evs = {"terminal"}

\* the first call, resolved by the terminal case, has returned a constant
\* that the operator created, without a lookup and with the cache empty
C16_Witness ==
    /\ wrap.pc = "done" /\ env.calls = 1 /\ hist.runs = 1
    /\ wrap.res # NULL /\ wrap.res \notin hist.used0
    /\ ~hist.looked /\ ~hist.recursed /\ ~hist.runFail
    /\ dd.cache = {}
    /\ \A h \in hist.used0 : dd.ref[h] = hist.ref0[h]

(***************************************************************************)
(* The branching variable and the order of the result.                     *)
(***************************************************************************)
\* the position of the top variable of h; a constant is below all variables
Level(m, h) == cuddI(m, m.node[h].index)

\* the positions strictly increase on every path from h to a constant
RECURSIVE Ordered(_, _)
Ordered(m, h) ==
    IF cuddIsConstant(m, h) THEN TRUE
    ELSE IF ~IsInternal(m, h) THEN FALSE
    ELSE /\ ~IsFree(m, cuddT(m, h)) /\ ~IsFree(m, cuddE(m, h))
         /\ Level(m, cuddT(m, h)) > Level(m, h)
         /\ Level(m, cuddE(m, h)) > Level(m, h)
         /\ Ordered(m, cuddT(m, h)) /\ Ordered(m, cuddE(m, h))

\* C17: a dyadic step that recurses branches on the variable with the
\* smaller position among the top variables of f and g; an operand with
\* that top variable contributes its then- and else-child, an operand
\* whose top variable comes later is passed unchanged to both calls; and
\* the positions strictly increase on every path of a returned diagram
C17_TopVariableFirst ==
    /\ (wrap.pc = "run" /\ stack # <<>> /\ ~Top.mon /\ Top.pc = "start") =>
           \A x \in StepOutcomes :
               x.kind = "call" =>
                   LET f == x.fr.f
                       g == x.fr.g
                       top == IF Level(dd, f) <= Level(dd, g)
                              THEN Level(dd, f) ELSE Level(dd, g)
                   IN  /\ x.fr.index \in Vars
                       /\ cuddI(dd, x.fr.index) = top
                       /\ x.cf = (IF Level(dd, f) = top
                                  THEN cuddT(dd, f) ELSE f)
                       /\ x.fr.fvn = (IF Level(dd, f) = top
                                      THEN cuddE(dd, f) ELSE f)
                       /\ x.cg = (IF Level(dd, g) = top
                                  THEN cuddT(dd, g) ELSE g)
                       /\ x.fr.gvn = (IF Level(dd, g) = top
                                      THEN cuddE(dd, g) ELSE g)
    /\ (wrap.pc = "done" /\ wrap.res # NULL /\ ~hist.ub) =>
           Ordered(dd, wrap.res)

\* a call on two variables has returned a diagram that branches first on
\* the variable with the greater index but the smaller position, and then
\* on the other
C17_Witness ==
    /\ wrap.pc = "done" /\ wrap.res # NULL /\ ~hist.ub /\ ~wrap.mon
    /\ IsInternal(dd, wrap.f) /\ IsInternal(dd, wrap.g)
    /\ IsInternal(dd, wrap.res) /\ IsInternal(dd, cuddT(dd, wrap.res))
    /\ dd.node[cuddT(dd, wrap.res)].index < dd.node[wrap.res].index
    /\ Level(dd, cuddT(dd, wrap.res)) > Level(dd, wrap.res)

(***************************************************************************)
(* Terminal operands.                                                      *)
(***************************************************************************)
\* the operands the innermost frame would split are all terminals
TerminalOperands ==
    IF Top.mon THEN cuddIsConstant(dd, Top.f)
    ELSE cuddIsConstant(dd, Top.f) /\ cuddIsConstant(dd, Top.g)

\* C18: a terminal operand is always resolved by the terminal case: on
\* terminals the operator returns a node, whatever its store requests meet,
\* and no frame reaches the recursive step, where the index and the
\* children are read, with terminals as the operands to split
C18_TerminalResolved ==
    /\ (wrap.pc = "run" /\ stack # <<>> /\ Top.pc = "start"
        /\ TerminalOperands) =>
           \A o \in OperatorOutcomes : o.res # NULL
    /\ \A i \in 1..Len(stack) : stack[i].pc # "undef"

(***************************************************************************)
(* Cudd_addMonadicApply.                                                   *)
(***************************************************************************)
\* op on one discriminant
MonadicVal(op, a) == IF op = "Log" THEN ValLog(a) ELSE NaNV

\* every internal node reachable from h has two different children
RECURSIVE ReducedFrom(_, _)
ReducedFrom(m, h) ==
    IF cuddIsConstant(m, h) THEN TRUE
    ELSE IF ~IsInternal(m, h) THEN FALSE
    ELSE /\ cuddT(m, h) # cuddE(m, h)
         /\ ReducedFrom(m, cuddT(m, h)) /\ ReducedFrom(m, cuddE(m, h))

\* the cache entries the monadic step of the innermost frame may add when
\* its else-branch has returned
MonadicInsertedByTop ==
    UNION {x.m.cache \ dd.cache :
             x \in UNION {cuddAddMonadicApplyRecurAfterE(Top, dd, ret, d, f)
                          : d \in BOOLEAN, f \in BOOLEAN}}

\* C19: a Cudd_addMonadicApply call that completes without failure returns
\* a reduced diagram whose value at every assignment is the operator
\* applied to the value of f at that assignment, wherever that value is
\* determinate; a step that recurses branches on the top variable of f,
\* calls itself on the then-child and then on the else-child of f, and
\* inserts its result under the one key (op, f)
C19_MonadicPointwise ==
    /\ (CompletedWithoutFailure /\ wrap.mon) =>
           /\ ReducedFrom(dd, wrap.res)
           /\ \A a \in Assignments :
                  LET v == MonadicVal(wrap.op, Eval(dd, wrap.f, a))
                  IN  ~IsNaN(v) => Eval(dd, wrap.res, a) = v
    /\ (wrap.pc = "run" /\ stack # <<>> /\ Top.mon /\ Top.pc = "start") =>
           \A x \in StepOutcomes :
               x.kind = "call" =>
                   /\ IsInternal(dd, Top.f)
                   /\ x.fr.f = Top.f
                   /\ x.fr.index = dd.node[Top.f].index
                   /\ x.cf = cuddT(dd, Top.f)
                   /\ x.fr.fvn = cuddE(dd, Top.f)
    /\ (wrap.pc = "run" /\ stack # <<>> /\ Top.mon /\ Top.pc = "waitE"
        /\ ret # NULL) =>
           \A c \in MonadicInsertedByTop :
               c.op = Top.op /\ c.f = Top.f /\ c.g = Top.f

\* a monadic call on an internal node has returned an internal node that
\* its outermost step inserted in the cache
C19_Witness ==
    /\ CompletedWithoutFailure /\ wrap.mon
    /\ IsInternal(dd, wrap.f) /\ IsInternal(dd, wrap.res)
    /\ hist.topIns > 0
    /\ \E c \in dd.cache :
           c.op = wrap.op /\ c.f = wrap.f /\ c.data = wrap.res

(***************************************************************************)
(* The retry loop of the wrappers.                                         *)
(***************************************************************************)
\* the steps of a call in progress: the program is sequential, a call that
\* can take its next step takes it
Run ==
    \/ ApplyEnter
    \/ ApplyAfterT
    \/ ApplyAfterE
    \/ MonadicEnter
    \/ MonadicAfterT
    \/ MonadicAfterE
    \/ UndefinedRead
    \/ WrapperRetry
    \/ WrapperReturn

\* the program with a call in progress never left half-way
SpecFair == Init /\ [][Next]_vars /\ WF_vars(Run)

\* a run of the recursion has ended and the wrapper is at its loop test
RunEnded == wrap.pc = "run" /\ stack = <<>>

FrameOutcomes ==
    IF Top.pc = "start" THEN StepOutcomes
    ELSE IF Top.pc = "waitT"
    THEN {IF Top.mon THEN cuddAddMonadicApplyRecurAfterT(Top, dd, ret)
          ELSE cuddAddApplyRecurAfterT(Top, dd, ret)}
    ELSE UNION {IF Top.mon
                THEN cuddAddMonadicApplyRecurAfterE(Top, dd, ret, d, f)
                ELSE cuddAddApplyRecurAfterE(Top, dd, ret, d, f)
                : d \in BOOLEAN, f \in BOOLEAN}

\* a step adds an entry only when it returns a node after both of its
\* branches returned one, and then the one entry from its key to that node
InsertsOnlyWhenComplete ==
    (wrap.pc = "run" /\ stack # <<>>
     /\ Top.pc \in {"start", "waitT", "waitE"}) =>
        \A x \in FrameOutcomes :
            \A c \in x.m.cache \ dd.cache :
                /\ Top.pc = "waitE" /\ Top.T # NULL /\ ret # NULL
                /\ x.kind = "return" /\ x.res # NULL
                /\ c = [op |-> Top.op, f |-> Top.f, g |-> Top.g,
                        data |-> x.res]

\* the entry maps its key to a node that stands for op applied point-wise
\* to the operands of the key, wherever op has a value
EntryCorrect(c) ==
    /\ c.data # NULL
    /\ ~IsFree(dd, c.f) /\ ~IsFree(dd, c.g) /\ ~IsFree(dd, c.data)
    /\ \A a \in Assignments :
           LET vf == Eval(dd, c.f, a)
               vg == Eval(dd, c.g, a)
               bg == cuddV(dd, dd.background)
               vr == Eval(dd, c.data, a)
           IN  CASE c.op \in ArithmeticOps ->
                      Determinate(c.op, vf, vg, bg) =>
                          vr = OpVal(c.op, vf, vg, bg)
                 [] c.op \in BooleanOps ->
                      (vf \in {Q(0), Q(1)} /\ vg \in {Q(0), Q(1)}) =>
                          vr = BoolVal(c.op, vf, vg)
                 [] c.op \in MonadicOps ->
                      ~IsNaN(MonadicVal(c.op, vf)) =>
                          vr = MonadicVal(c.op, vf)
                 [] OTHER -> TRUE

====
